---- MODULE Spec2Model ----
(***************************************************************************)
(* Model of packages/remix-express/server.ts: the Express adapter that     *)
(* translates a native request into a Fetch-style Request, awaits the      *)
(* framework handler, and emits the Response onto the native response.     *)
(*                                                                         *)
(* JavaScript is single threaded: every synchronous stretch of code is one *)
(* action; the await of the framework handler and the stream events of the *)
(* two pipes are the points where other actions interleave.                *)
(***************************************************************************)
EXTENDS Integers, Sequences, FiniteSets, TLC

VARIABLES
    getLoadContext,  \* typeof of the getLoadContext option: "function" or "undefined"
    req,             \* the native request: method, protocol, hostname, url, headers
    payload,         \* the chunks the native request carries (never changes)
    reqStream,       \* the native request as a readable stream
    passThrough,     \* the PassThrough of createRemixRequest
    consumed,        \* what the reader of request.body has read so far
    pc,              \* position of the middleware callback
    request,         \* the Request built by createRemixRequest
    handlerCall,     \* the arguments handleRequest was called with
    calls,           \* the calls the callback has made, in order
    response,        \* the Response the framework handler resolved with
    res,             \* the native response
    bodyStream,      \* response.body when it is a stream
    nextCalls,       \* the arguments next() was called with, in order
    thrown,          \* the values thrown / rejected inside the try block
    promise,         \* the promise the async callback returned
    headersOut       \* result of createRemixHeaders (header translation runs)

vars == <<getLoadContext, req, payload, reqStream, passThrough, consumed, pc,
          request, handlerCall, calls, response, res, bodyStream, nextCalls,
          thrown, promise, headersOut>>

(***************************************************************************)
(* Bounds of the model.                                                    *)
(***************************************************************************)
MaxChunks == 2        \* chunks in a native request payload
MaxBodyChunks == 2    \* chunks in a streamed response body
MaxValues == 2        \* strings in an array-valued request header

\* new PassThrough({ highWaterMark: 16384 })
HighWaterMark == 16384

Undefined == "undefined"
None == "none"

(***************************************************************************)
(* Byte chunks: an identity and a length in bytes.                         *)
(***************************************************************************)
ChunkSizes == {HighWaterMark \div 2, HighWaterMark}

RECURSIVE ChunkSeqs(_)
ChunkSeqs(n) ==
    IF n = 0 THEN {<<>>}
    ELSE LET shorter == ChunkSeqs(n - 1)
         IN shorter \cup
            {Append(s, [id |-> n, len |-> l]) : s \in {t \in shorter : Len(t) = n - 1},
                                                l \in ChunkSizes}

RECURSIVE ByteLength(_)
ByteLength(chunks) ==
    IF chunks = <<>> THEN 0 ELSE Head(chunks).len + ByteLength(Tail(chunks))

(***************************************************************************)
(* createRemixHeaders.  A native header value is a string, an array of     *)
(* strings, or undefined (a key whose value is neither).                   *)
(***************************************************************************)
HeaderNames == {"host", "x-foo"}
HeaderStrings == {"a", "b"}

RECURSIVE StringSeqs(_)
StringSeqs(n) ==
    IF n = 0 THEN {<<>>}
    ELSE LET shorter == StringSeqs(n - 1)
         IN shorter \cup {Append(s, v) : s \in {t \in shorter : Len(t) = n - 1},
                                         v \in HeaderStrings}

HeaderValues ==
    {[type |-> "string", str |-> v, arr |-> <<>>] : v \in HeaderStrings}
    \cup {[type |-> "array", str |-> "", arr |-> a] : a \in StringSeqs(MaxValues)}
    \cup {[type |-> "undefined", str |-> "", arr |-> <<>>]}

HeaderMaps == UNION {[names -> HeaderValues] : names \in SUBSET HeaderNames}

EmptyMap == [k \in {} |-> ""]

\* Array.prototype.join(",")
RECURSIVE JoinNoSeparator(_)
JoinNoSeparator(arr) ==
    IF arr = <<>> THEN "" ELSE Head(arr) \o JoinNoSeparator(Tail(arr))

RECURSIVE Join(_)
Join(arr) ==
    IF arr = <<>> THEN ""
    ELSE IF Len(arr) = 1 THEN Head(arr)
    ELSE Head(arr) \o "," \o Join(Tail(arr))

\* The reduce() callback: the memo object after visiting `key`.
ReduceStep(memo, key, value) ==
    IF value.type = "string"
    THEN [k \in DOMAIN memo \cup {key} |-> IF k = key THEN value.str ELSE memo[k]]
    ELSE IF value.type = "array"
    THEN [k \in DOMAIN memo \cup {key} |-> IF k = key THEN Join(value.arr) ELSE memo[k]]
    ELSE memo

RECURSIVE Reduce(_, _, _)
Reduce(requestHeaders, keys, memo) ==
    IF keys = {} THEN memo
    ELSE LET key == CHOOSE k \in keys : TRUE
         IN Reduce(requestHeaders, keys \ {key},
                   ReduceStep(memo, key, requestHeaders[key]))

\* new Headers(init): header names are stored lower-cased.
LowerCase(name) ==
    CASE name = "Host" -> "host"
      [] name = "X-Foo" -> "x-foo"
      [] OTHER -> name

Headers(init) ==
    [n \in {LowerCase(k) : k \in DOMAIN init} |->
        init[CHOOSE k \in DOMAIN init : LowerCase(k) = n]]

createRemixHeaders(requestHeaders) ==
    Headers(Reduce(requestHeaders, DOMAIN requestHeaders, EmptyMap))

(***************************************************************************)
(* createRemixRequest.                                                     *)
(***************************************************************************)
Methods == {"GET", "HEAD", "POST"}
Protocols == {"https"}
ValidHostnames == {"example.com"}
Hostnames == ValidHostnames \cup {"exa mple"}
Paths == {"/foo?x=1"}

\* new URL(input, base).toString(): throws when the base does not parse.
ParseableOrigins == {p \o "://" \o h : p \in Protocols, h \in ValidHostnames}

NewURL(input, base) ==
    IF base \in ParseableOrigins
    THEN [ok |-> TRUE, href |-> base \o input, error |-> None]
    ELSE [ok |-> FALSE, href |-> "", error |-> "TypeError: Invalid URL"]

NoRequest ==
    [created |-> FALSE, method |-> "", url |-> "", headers |-> EmptyMap,
     body |-> Undefined]

\* Line 96: the methods for which init.body is set.
HasBodyAlways(method) == TRUE

HasBody(method) == method # "GET" /\ method # "HEAD"

\* The Request, or the error the URL constructor threw.
createRemixRequest(r) ==
    LET origin == r.protocol \o "://" \o r.hostname
        url == NewURL(r.url, origin)
    IN IF ~url.ok
       THEN [ok |-> FALSE, error |-> url.error, request |-> NoRequest]
       ELSE [ok |-> TRUE, error |-> None,
             request |-> [created |-> TRUE,
                          method |-> r.method,
                          url |-> url.href,
                          headers |-> createRemixHeaders(r.headers),
                          body |-> IF HasBody(r.method)
                                   THEN "PassThrough" ELSE Undefined]]

(***************************************************************************)
(* req.pipe(new PassThrough({ highWaterMark: 16384 })).                    *)
(* The PassThrough has a writable side (wbuf: chunks written and not yet   *)
(* transformed) and a readable side (rbuf: chunks pushed and not yet       *)
(* read).  A chunk is transformed while the readable side is below the     *)
(* high water mark; write() returns false once the writable side holds     *)
(* highWaterMark bytes, which pauses the source until 'drain'.             *)
(***************************************************************************)
NoPassThrough ==
    [wbuf |-> <<>>, rbuf |-> <<>>, needDrain |-> FALSE, ending |-> FALSE]

RECURSIVE Transform(_)
Transform(pt) ==
    IF pt.wbuf # <<>> /\ ByteLength(pt.rbuf) < HighWaterMark
    THEN Transform([pt EXCEPT !.wbuf = Tail(@),
                              !.rbuf = Append(@, Head(pt.wbuf))])
    ELSE pt

\* A write that discards the chunk when it would exceed the high water mark.
PassThroughWriteLossy(pt, chunk) ==
    LET length == ByteLength(pt.wbuf) + chunk.len
        ret == length < HighWaterMark
    IN [ret |-> ret,
        pt |-> IF ret THEN Transform([pt EXCEPT !.wbuf = Append(@, chunk)])
               ELSE [pt EXCEPT !.needDrain = TRUE]]

\* dest.write(chunk): the new stream state and write()'s return value.
PassThroughWrite(pt, chunk) ==
    LET length == ByteLength(pt.wbuf) + chunk.len
        ret == length < HighWaterMark
    IN [ret |-> ret,
        pt |-> Transform([pt EXCEPT !.wbuf = Append(@, chunk),
                                    !.needDrain = @ \/ ~ret])]

\* The reader of request.body has seen the end of the stream.
RequestBodyEnded ==
    /\ passThrough.ending
    /\ passThrough.wbuf = <<>>
    /\ passThrough.rbuf = <<>>

(***************************************************************************)
(* sendRemixResponse.                                                      *)
(***************************************************************************)
Statuses == {200, 404}

ResponseHeaderLists ==
    { <<>>,
      <<[key |-> "content-type", value |-> "text/html"]>>,
      <<[key |-> "set-cookie", value |-> "a=1"],
        [key |-> "set-cookie", value |-> "b=2"]>> }

Buffers == ChunkSeqs(1)

RECURSIVE StreamChunks(_)
StreamChunks(n) ==
    IF n = 0 THEN <<>>
    ELSE Append(StreamChunks(n - 1), [id |-> n, len |-> HighWaterMark])

Bodies ==
    {[kind |-> "buffer", chunks |-> b] : b \in Buffers}
    \cup {[kind |-> "stream", chunks |-> StreamChunks(n)] : n \in 0..MaxBodyChunks}
    \cup {[kind |-> "null", chunks |-> <<>>]}

Responses ==
    [present : {TRUE}, status : Statuses, headers : ResponseHeaderLists,
     body : Bodies]

NoResponse ==
    [present |-> FALSE, status |-> 0, headers |-> <<>>,
     body |-> [kind |-> "null", chunks |-> <<>>]]

\* The native response before the adapter has touched it.
FreshRes ==
    [statusCode |-> 200, headers |-> EmptyMap, body |-> <<>>, ended |-> FALSE,
     needDrain |-> FALSE, log |-> <<>>]

LogEntry(op, chunks) == [op |-> op, chunks |-> chunks]

\* res.status(code)
ResStatus(r, code) ==
    [r EXCEPT !.statusCode = code, !.log = Append(@, LogEntry("status", <<>>))]

\* res.set(key, value): a later value for the same key replaces the earlier.
ResSet(r, key, value) ==
    [r EXCEPT !.headers = [k \in DOMAIN @ \cup {key} |->
                              IF k = key THEN value ELSE @[k]],
              !.log = Append(@, LogEntry("set", <<>>))]

\* The for loop of lines 106-108.
RECURSIVE SetHeaders(_, _)
SetHeaders(r, entries) ==
    IF entries = <<>> THEN r
    ELSE SetHeaders(ResSet(r, Head(entries).key, Head(entries).value),
                    Tail(entries))

\* res.end(buffer)
ResEnd(r, buffer) ==
    [r EXCEPT !.body = @ \o buffer, !.ended = TRUE,
              !.log = Append(@, LogEntry("end", buffer))]

\* res.write(chunk), as called by the pipe
ResWrite(r, chunk, ok) ==
    [r EXCEPT !.body = Append(@, chunk), !.needDrain = ~ok,
              !.log = Append(@, LogEntry("write", <<chunk>>))]

\* An emitter that writes the body before the status and the headers.
sendRemixResponseBodyFirst(r, resp) ==
    IF resp.body.kind = "buffer"
    THEN [res |-> SetHeaders(ResStatus(ResEnd(r, resp.body.chunks), resp.status),
                             resp.headers),
          piped |-> FALSE, error |-> None]
    ELSE IF resp.body.kind = "stream"
    THEN [res |-> SetHeaders(ResStatus(r, resp.status), resp.headers),
          piped |-> TRUE, error |-> None]
    ELSE [res |-> SetHeaders(ResStatus(r, resp.status), resp.headers),
          piped |-> FALSE,
          error |-> "TypeError: Cannot read property 'pipe' of null"]

\* An emitter that ends the native response before it reads .pipe of the body.
sendRemixResponseEndsFirst(r, resp) ==
    LET withHead == SetHeaders(ResStatus(r, resp.status), resp.headers)
    IN IF resp.body.kind = "buffer"
       THEN [res |-> ResEnd(withHead, resp.body.chunks), piped |-> FALSE,
             error |-> None]
       ELSE IF resp.body.kind = "stream"
       THEN [res |-> withHead, piped |-> TRUE, error |-> None]
       ELSE [res |-> ResEnd(withHead, <<>>), piped |-> FALSE,
             error |-> "TypeError: Cannot read property 'pipe' of null"]

\* An emitter that ends a buffered response without its bytes.
sendRemixResponseDropsBuffer(r, resp) ==
    LET withHead == SetHeaders(ResStatus(r, resp.status), resp.headers)
    IN IF resp.body.kind = "buffer"
       THEN [res |-> ResEnd(withHead, <<>>), piped |-> FALSE, error |-> None]
       ELSE IF resp.body.kind = "stream"
       THEN [res |-> withHead, piped |-> TRUE, error |-> None]
       ELSE [res |-> withHead, piped |-> FALSE,
             error |-> "TypeError: Cannot read property 'pipe' of null"]

\* The native response after the call, whether response.body was piped into
\* it, and the error the call threw (reading .pipe of a null body).
sendRemixResponse(r, resp) ==
    LET withHead == SetHeaders(ResStatus(r, resp.status), resp.headers)
    IN IF resp.body.kind = "buffer"
       THEN [res |-> ResEnd(withHead, resp.body.chunks), piped |-> FALSE,
             error |-> None]
       ELSE IF resp.body.kind = "stream"
       THEN [res |-> withHead, piped |-> TRUE, error |-> None]
       ELSE [res |-> withHead, piped |-> FALSE,
             error |-> "TypeError: Cannot read property 'pipe' of null"]

NoBodyStream ==
    [piped |-> FALSE, remaining |-> <<>>, flowing |-> FALSE, ended |-> FALSE,
     errored |-> FALSE]

(***************************************************************************)
(* The middleware callback returned by createRequestHandler.               *)
(***************************************************************************)
ContextValues == {"session-1", "session-2"}

\* What the user's getLoadContext does when called: returns a value or throws.
ContextOutcomes ==
    {[threw |-> FALSE, value |-> c] : c \in ContextValues}
    \cup {[threw |-> TRUE, value |-> "Error: getLoadContext failed"]}

HandlerErrors == {"Error: loader failed", "Error: render failed"}

\* What the call handleRequest(request, loadContext) does before it returns:
\* throws synchronously, or returns a pending promise.
HandlerCallOutcomes ==
    {[threw |-> TRUE, value |-> e] : e \in HandlerErrors}
    \cup {[threw |-> FALSE, value |-> None]}

\* Lines 53-56 with the condition dropped.
LoadContextIgnored(typeofGetLoadContext, result) == Undefined

\* Lines 53-56: the load context handed to the handler.
LoadContext(typeofGetLoadContext, result) ==
    IF typeofGetLoadContext = "function" THEN result ELSE Undefined

\* A catch block that reports a new error instead of the one caught.
TryCatchWrapped(error, nx) ==
    [nextCalls |-> Append(nx, "Error: request failed"), promise |-> "resolved"]

\* A catch block that calls next() a second time.
TryCatchTwice(error, nx) ==
    [nextCalls |-> Append(Append(nx, error), error), promise |-> "resolved"]

\* Lines 61-65: the catch block calls next(error); the async function then
\* returns normally, so its promise resolves.
TryCatch(error, nx) ==
    [nextCalls |-> Append(nx, error), promise |-> "resolved"]

Call(fn, value) == [fn |-> fn, value |-> value]

NoHandlerCall == [called |-> FALSE, loadContext |-> Undefined]

\* Lines 46-58 and 61-65: the callback runs synchronously up to the await.
Invoke ==
    /\ pc = "start"
    /\ \E ctxOut \in ContextOutcomes, hOut \in HandlerCallOutcomes :
        LET t == createRemixRequest(req)
            hasCtx == getLoadContext = "function"
            ctxThrew == t.ok /\ hasCtx /\ ctxOut.threw
            reachedHandler == t.ok /\ ~ctxThrew
            loadContext == LoadContext(getLoadContext, ctxOut.value)
            hThrew == reachedHandler /\ hOut.threw
            failed == ~t.ok \/ ctxThrew \/ hThrew
            error == IF ~t.ok THEN t.error
                     ELSE IF ctxThrew THEN ctxOut.value
                     ELSE hOut.value
            caught == TryCatch(error, nextCalls)
        IN /\ request' = t.request
           /\ IF t.ok /\ t.request.body # Undefined
              THEN reqStream' = [reqStream EXCEPT !.piped = TRUE, !.flowing = TRUE]
              ELSE reqStream' = reqStream
           /\ calls' = <<Call("createRemixRequest", None)>>
                       \o (IF t.ok /\ hasCtx
                           THEN <<Call("getLoadContext", ctxOut.value)>> ELSE <<>>)
                       \o (IF reachedHandler
                           THEN <<Call("handleRequest", loadContext)>> ELSE <<>>)
           /\ handlerCall' = IF reachedHandler
                             THEN [called |-> TRUE, loadContext |-> loadContext]
                             ELSE handlerCall
           /\ IF failed
              THEN /\ thrown' = Append(thrown, error)
                   /\ nextCalls' = caught.nextCalls
                   /\ promise' = caught.promise
                   /\ pc' = "done"
              ELSE /\ pc' = "awaiting"
                   /\ UNCHANGED <<thrown, nextCalls, promise>>
    /\ UNCHANGED <<getLoadContext, req, payload, passThrough, consumed, response,
                   res, bodyStream, headersOut>>

\* Lines 58-60 and 61-65: the handler's promise resolves with a Response and
\* the callback runs sendRemixResponse.
HandlerResolves ==
    /\ pc = "awaiting"
    /\ \E resp \in Responses :
        LET sent == sendRemixResponse(res, resp)
            caught == TryCatch(sent.error, nextCalls)
        IN /\ response' = resp
           /\ calls' = Append(calls, Call("sendRemixResponse", None))
           /\ res' = sent.res
           /\ bodyStream' = IF sent.piped
                            THEN [NoBodyStream EXCEPT !.piped = TRUE,
                                                      !.flowing = TRUE,
                                                      !.remaining = resp.body.chunks]
                            ELSE bodyStream
           /\ IF sent.error # None
              THEN /\ thrown' = Append(thrown, sent.error)
                   /\ nextCalls' = caught.nextCalls
                   /\ promise' = caught.promise
              ELSE /\ promise' = "resolved"
                   /\ UNCHANGED <<thrown, nextCalls>>
    /\ pc' = "done"
    /\ UNCHANGED <<getLoadContext, req, payload, reqStream, passThrough, consumed,
                   request, handlerCall, headersOut>>

\* Lines 58 and 61-65: the handler's promise rejects.
HandlerRejects ==
    /\ pc = "awaiting"
    /\ \E error \in HandlerErrors :
        LET caught == TryCatch(error, nextCalls)
        IN /\ thrown' = Append(thrown, error)
           /\ nextCalls' = caught.nextCalls
           /\ promise' = caught.promise
    /\ pc' = "done"
    /\ UNCHANGED <<getLoadContext, req, payload, reqStream, passThrough, consumed,
                   request, handlerCall, calls, response, res, bodyStream,
                   headersOut>>

(***************************************************************************)
(* Line 97: the events of req.pipe(passThrough).                           *)
(***************************************************************************)
\* 'data' on the native request: the pipe writes the chunk to the
\* PassThrough and pauses the request when write() returns false.
ReqData ==
    /\ reqStream.piped /\ reqStream.flowing
    /\ reqStream.remaining # <<>>
    /\ LET w == PassThroughWrite(passThrough, Head(reqStream.remaining))
       IN /\ passThrough' = w.pt
          /\ reqStream' = [reqStream EXCEPT !.remaining = Tail(@),
                                            !.flowing = w.ret]
    /\ UNCHANGED <<getLoadContext, req, payload, consumed, pc, request,
                   handlerCall, calls, response, res, bodyStream, nextCalls,
                   thrown, promise, headersOut>>

\* 'drain' on the PassThrough: the writable side is empty again and the pipe
\* resumes the native request.
PassThroughDrain ==
    /\ passThrough.needDrain
    /\ passThrough.wbuf = <<>>
    /\ passThrough' = [passThrough EXCEPT !.needDrain = FALSE]
    /\ reqStream' = [reqStream EXCEPT !.flowing = TRUE]
    /\ UNCHANGED <<getLoadContext, req, payload, consumed, pc, request,
                   handlerCall, calls, response, res, bodyStream, nextCalls,
                   thrown, promise, headersOut>>

\* 'end' on the native request: the pipe calls passThrough.end().
ReqEnd ==
    /\ reqStream.piped /\ reqStream.flowing
    /\ reqStream.remaining = <<>>
    /\ ~reqStream.ended
    /\ reqStream' = [reqStream EXCEPT !.ended = TRUE]
    /\ passThrough' = [passThrough EXCEPT !.ending = TRUE]
    /\ UNCHANGED <<getLoadContext, req, payload, consumed, pc, request,
                   handlerCall, calls, response, res, bodyStream, nextCalls,
                   thrown, promise, headersOut>>

\* The reader of request.body takes the next chunk; the PassThrough then
\* transforms what the freed space allows.
ConsumerRead ==
    /\ request.created /\ request.body # Undefined
    /\ passThrough.rbuf # <<>>
    /\ consumed' = Append(consumed, Head(passThrough.rbuf))
    /\ passThrough' = Transform([passThrough EXCEPT !.rbuf = Tail(@)])
    /\ UNCHANGED <<getLoadContext, req, payload, reqStream, pc, request,
                   handlerCall, calls, response, res, bodyStream, nextCalls,
                   thrown, promise, headersOut>>

(***************************************************************************)
(* Line 113: the events of response.body.pipe(res).                        *)
(***************************************************************************)
\* 'data' on response.body: the pipe writes the chunk to the native
\* response, whose flow control decides what write() returns.
BodyData ==
    /\ bodyStream.piped /\ bodyStream.flowing
    /\ bodyStream.remaining # <<>>
    /\ \E ok \in BOOLEAN :
        /\ res' = ResWrite(res, Head(bodyStream.remaining), ok)
        /\ bodyStream' = [bodyStream EXCEPT !.remaining = Tail(@),
                                            !.flowing = ok]
    /\ UNCHANGED <<getLoadContext, req, payload, reqStream, passThrough, consumed,
                   pc, request, handlerCall, calls, response, nextCalls, thrown,
                   promise, headersOut>>

\* 'drain' on the native response: the pipe resumes response.body.
ResDrain ==
    /\ bodyStream.piped
    /\ res.needDrain
    /\ res' = [res EXCEPT !.needDrain = FALSE]
    /\ bodyStream' = [bodyStream EXCEPT !.flowing = TRUE]
    /\ UNCHANGED <<getLoadContext, req, payload, reqStream, passThrough, consumed,
                   pc, request, handlerCall, calls, response, nextCalls, thrown,
                   promise, headersOut>>

\* An 'end' handler that leaves the native response open.
PipeEndLeavesOpen(r) == r

\* The pipe's 'end' handler: res.end().
PipeEnd(r) == ResEnd(r, <<>>)

\* 'end' on response.body, emitted once every chunk has been delivered.
BodyEnd ==
    /\ bodyStream.piped /\ bodyStream.flowing
    /\ bodyStream.remaining = <<>>
    /\ ~bodyStream.ended
    /\ bodyStream' = [bodyStream EXCEPT !.ended = TRUE]
    /\ res' = PipeEnd(res)
    /\ UNCHANGED <<getLoadContext, req, payload, reqStream, passThrough, consumed,
                   pc, request, handlerCall, calls, response, nextCalls, thrown,
                   promise, headersOut>>

\* 'error' on response.body: the pipe is removed; nothing ends the response.
BodyError ==
    /\ bodyStream.piped
    /\ ~bodyStream.ended
    /\ bodyStream' = [bodyStream EXCEPT !.piped = FALSE, !.flowing = FALSE,
                                        !.errored = TRUE]
    /\ UNCHANGED <<getLoadContext, req, payload, reqStream, passThrough, consumed,
                   pc, request, handlerCall, calls, response, res, nextCalls,
                   thrown, promise, headersOut>>

(***************************************************************************)
(* Specification of one request.                                           *)
(***************************************************************************)
RequestHeaders ==
    [k \in HeaderNames |->
        IF k = "host" THEN [type |-> "string", str |-> "a", arr |-> <<>>]
        ELSE [type |-> "array", str |-> "", arr |-> <<"a", "b">>]]

NoHeadersOut == [done |-> FALSE, headers |-> EmptyMap]

InitRest ==
    /\ reqStream = [piped |-> FALSE, remaining |-> payload, flowing |-> FALSE,
                    ended |-> FALSE]
    /\ passThrough = NoPassThrough
    /\ consumed = <<>>
    /\ pc = "start"
    /\ request = NoRequest
    /\ handlerCall = NoHandlerCall
    /\ calls = <<>>
    /\ response = NoResponse
    /\ res = FreshRes
    /\ bodyStream = NoBodyStream
    /\ nextCalls = <<>>
    /\ thrown = <<>>
    /\ promise = "pending"
    /\ headersOut = NoHeadersOut

Init ==
    /\ getLoadContext \in {"function", "undefined"}
    /\ req \in [method : Methods, protocol : Protocols, hostname : Hostnames,
                url : Paths, headers : {RequestHeaders}]
    /\ payload \in ChunkSeqs(MaxChunks)
    /\ InitRest

Next ==
    \/ Invoke
    \/ HandlerResolves
    \/ HandlerRejects
    \/ ReqData
    \/ PassThroughDrain
    \/ ReqEnd
    \/ ConsumerRead
    \/ BodyData
    \/ ResDrain
    \/ BodyEnd
    \/ BodyError

Spec == Init /\ [][Next]_vars

(***************************************************************************)
(* Specification of createRemixHeaders alone, over every header mapping.   *)
(***************************************************************************)
InitHeaders ==
    /\ getLoadContext = "undefined"
    /\ req \in [method : {"GET"}, protocol : Protocols, hostname : ValidHostnames,
                url : Paths, headers : HeaderMaps]
    /\ payload = <<>>
    /\ InitRest

TranslateHeaders ==
    /\ ~headersOut.done
    /\ headersOut' = [done |-> TRUE, headers |-> createRemixHeaders(req.headers)]
    /\ UNCHANGED <<getLoadContext, req, payload, reqStream, passThrough, consumed,
                   pc, request, handlerCall, calls, response, res, bodyStream,
                   nextCalls, thrown, promise>>

NextHeaders == TranslateHeaders

SpecHeaders == InitHeaders /\ [][NextHeaders]_vars

(***************************************************************************)
(* Properties.                                                             *)
(***************************************************************************)
BodylessMethods == {"GET", "HEAD"}

IsBodyOp(entry) == entry.op \in {"write", "end"}

BodyOps == {i \in 1..Len(res.log) : IsBodyOp(res.log[i])}

CallNames == [i \in 1..Len(calls) |-> calls[i].fn]

\* The step of the try block that failed, read off what the callback reached.
FailedStep ==
    IF thrown = <<>> THEN None
    ELSE IF ~request.created THEN "translation"
    ELSE IF ~handlerCall.called THEN "getLoadContext"
    ELSE IF ~response.present THEN "handler"
    ELSE "emission"

\* C1: whenever a step of the try block has thrown or rejected, the callback
\* is finished, its promise has resolved (it never rejects), and next has been
\* called with exactly the value that was thrown.
C1_FailureForwardedToNext ==
    /\ promise # "rejected"
    /\ thrown # <<>> =>
        /\ pc = "done"
        /\ promise = "resolved"
        /\ nextCalls = thrown
        /\ Len(thrown) = 1

\* C1 witness: response emission failed and next received the TypeError.
C1_Witness ==
    /\ FailedStep = "emission"
    /\ promise = "resolved"
    /\ nextCalls = <<"TypeError: Cannot read property 'pipe' of null">>

\* C2 as stated: once the callback has finished, next has been invoked
\* exactly once, whichever path was taken.
C2_NextExactlyOncePerRequest ==
    pc = "done" => Len(nextCalls) = 1

\* C2 amended: next is invoked at most once per invocation of the callback:
\* exactly once when a step failed, and not at all while the callback is
\* running or when every step succeeded.
C2_NextOnceOnFailureOnly ==
    /\ Len(nextCalls) <= 1
    /\ pc # "done" => nextCalls = <<>>
    /\ pc = "done" => (Len(nextCalls) = 1 <=> thrown # <<>>)

\* C2 witness: the response was emitted and closed, and next was never called.
C2_Witness ==
    /\ pc = "done"
    /\ thrown = <<>>
    /\ res.ended
    /\ nextCalls = <<>>

\* C3: for GET and HEAD the Request has no body, and the native request is
\* never piped: nothing of its payload is consumed, whatever the payload is.
C3_NoBodyForGetAndHead ==
    (request.created /\ req.method \in BodylessMethods) =>
        /\ request.body = Undefined
        /\ ~reqStream.piped
        /\ ~reqStream.flowing
        /\ reqStream.remaining = payload
        /\ passThrough = NoPassThrough
        /\ consumed = <<>>

\* C3 witness: a GET request that carries a payload has been handled.
C3_Witness ==
    /\ pc = "done"
    /\ request.created
    /\ req.method = "GET"
    /\ Len(payload) = MaxChunks
    /\ request.body = Undefined

\* C4: for any other method the Request's body is the PassThrough, and at
\* every moment the chunks already read, those buffered on the readable and
\* the writable side, and those the native request still holds make up the
\* payload, in order; when the reader sees the end it has read the payload.
C4_BodyYieldsPayloadInOrder ==
    (request.created /\ req.method \notin BodylessMethods) =>
        /\ request.body = "PassThrough"
        /\ reqStream.piped
        /\ consumed \o passThrough.rbuf \o passThrough.wbuf \o reqStream.remaining
             = payload
        /\ RequestBodyEnded => consumed = payload

\* C4 witness: a payload whose first chunk fills the buffer to the high water
\* mark (so the pipe paused the request) has been read to the end.
C4_Witness ==
    /\ req.method = "POST"
    /\ Len(payload) = MaxChunks
    /\ payload[1].len = HighWaterMark
    /\ RequestBodyEnded
    /\ consumed = payload

\* N strings joined with a comma, built from the left.
RECURSIVE CommaJoined(_, _)
CommaJoined(arr, n) ==
    IF n = 0 THEN ""
    ELSE IF n = 1 THEN arr[1]
    ELSE CommaJoined(arr, n - 1) \o "," \o arr[n]

\* C5: in the translated headers every string-valued entry keeps its key and
\* value, every array-valued entry holds its strings joined with a comma in
\* order, every other entry is absent, and no other key appears.
C5_HeadersTranslated ==
    headersOut.done =>
        /\ DOMAIN headersOut.headers \subseteq DOMAIN req.headers
        /\ \A k \in DOMAIN req.headers :
            LET value == req.headers[k]
            IN CASE value.type = "string" ->
                      /\ k \in DOMAIN headersOut.headers
                      /\ headersOut.headers[k] = value.str
                 [] value.type = "array" ->
                      /\ k \in DOMAIN headersOut.headers
                      /\ headersOut.headers[k] = CommaJoined(value.arr, Len(value.arr))
                 [] OTHER -> k \notin DOMAIN headersOut.headers

\* C5 witness: { "x-foo": ["a","b"], host: undefined } became { "x-foo": "a,b" }.
C5_Witness ==
    /\ headersOut.done
    /\ DOMAIN req.headers = {"host", "x-foo"}
    /\ req.headers["x-foo"].arr = <<"a", "b">>
    /\ req.headers["host"].type = "undefined"
    /\ DOMAIN headersOut.headers = {"x-foo"}
    /\ headersOut.headers["x-foo"] = "a,b"

\* C6: once sendRemixResponse has run on a Response with a buffered body, the
\* native status is the Response's status, the native body is exactly the
\* buffer, and the native response is ended.
C6_BufferedBodyEmitted ==
    (response.present /\ response.body.kind = "buffer") =>
        /\ res.statusCode = response.status
        /\ res.body = response.body.chunks
        /\ res.ended

\* C6 witness: a 404 Response with a non-empty buffer was written and ended.
C6_Witness ==
    /\ response.present
    /\ response.body.kind = "buffer"
    /\ response.status = 404
    /\ response.body.chunks # <<>>
    /\ res.statusCode = 404
    /\ res.ended

\* C7: for a streamed body the native response holds, in order and unchanged,
\* exactly the chunks the stream has emitted so far; it is ended as soon as
\* the stream has ended, and only then.
C7_StreamedBodyPiped ==
    (response.present /\ response.body.kind = "stream") =>
        /\ res.body \o bodyStream.remaining = response.body.chunks
        /\ res.ended <=> bodyStream.ended
        /\ res.ended => res.body = response.body.chunks

\* C7 witness: a stream of several chunks was written out and the response ended.
C7_Witness ==
    /\ response.present
    /\ response.body.kind = "stream"
    /\ Len(response.body.chunks) = MaxBodyChunks
    /\ bodyStream.ended
    /\ res.ended
    /\ res.body = response.body.chunks

\* The native header map that copying `entries` in order must produce.
LastValue(entries, key) ==
    LET last == CHOOSE i \in 1..Len(entries) :
                    /\ entries[i].key = key
                    /\ \A j \in (i + 1)..Len(entries) : entries[j].key # key
    IN entries[last].value

ExpectedHeaders(entries) ==
    [k \in {entries[i].key : i \in 1..Len(entries)} |-> LastValue(entries, k)]

\* C8: before the first body write or end on the native response, the status
\* was set once and every header entry of the Response was set, and neither
\* is touched afterwards; so from the first body byte on, the native status
\* and headers are those of the Response.
C8_HeadBeforeBody ==
    \A i \in BodyOps :
        /\ response.present
        /\ Cardinality({j \in 1..(i - 1) : res.log[j].op = "status"}) = 1
        /\ Cardinality({j \in 1..(i - 1) : res.log[j].op = "set"})
             = Len(response.headers)
        /\ \A j \in (i + 1)..Len(res.log) : IsBodyOp(res.log[j])
        /\ res.statusCode = response.status
        /\ res.headers = ExpectedHeaders(response.headers)

\* C8 witness: a streamed chunk was written after a status and two headers.
C8_Witness ==
    /\ response.present
    /\ response.body.kind = "stream"
    /\ Len(response.headers) = 2
    /\ response.status = 404
    /\ \E i \in BodyOps : res.log[i].op = "write"

C10_NothingWrittenWhenNextInvoked ==
    nextCalls # <<>> =>
        /\ res.body = <<>>
        /\ ~res.ended
        /\ BodyOps = {}
        /\ ~bodyStream.piped
        /\ FailedStep # "emission" => res = FreshRes

\* C10 witness: emission failed after the status and the headers were set.
C10_Witness ==
    /\ nextCalls # <<>>
    /\ FailedStep = "emission"
    /\ res.statusCode = 404
    /\ res.headers # EmptyMap
    /\ res.body = <<>>
    /\ ~res.ended

====
